---- MODULE Spec2Model ----
(***************************************************************************)
(* Quest engine and crafting resolver of the bot: QuestManager             *)
(* (src/utils/quest_manager.py) over Database (src/utils/database.py).     *)
(*                                                                         *)
(* Python dicts and SQL tables are functions whose DOMAIN is the set of    *)
(* keys present (a table is keyed by its PRIMARY KEY).  Every handler is   *)
(* one action; Database.craft_item is also given statement by statement    *)
(* (one execute_query = one committed statement) for the fault and the     *)
(* overlap specifications.                                                 *)
(***************************************************************************)
EXTENDS Integers, Sequences, FiniteSets, TLC

(***************************************************************************)
(* Bounds of the model.                                                    *)
(***************************************************************************)
\* largest quantity a row or a run's pending delta is allowed to reach
MaxQty == 2
\* datetime('now') takes the values 0..MaxClock
MaxClock == 1

(***************************************************************************)
(* Dict helpers.                                                           *)
(***************************************************************************)
EmptyDict == [x \in {} |-> 0]

Put(d, k, v) == [x \in (DOMAIN d) \cup {k} |-> IF x = k THEN v ELSE d[x]]

\* a delete that removes nothing
DelNothing(d, k) == d

Del(d, k) == [x \in (DOMAIN d) \ {k} |-> d[x]]

\* A dict whose iteration order is read by the code is the sequence of its
\* <<key, value>> items in insertion order.
HasKey(items, key) == \E i \in DOMAIN items : items[i][1] = key

\* items.get(key), for a key the dict has
ItemValue(items, key) == items[CHOOSE i \in DOMAIN items : items[i][1] = key][2]

\* items[key] = value: a key the dict has keeps its place
SetItem(items, key, value) ==
    IF HasKey(items, key)
    THEN [i \in DOMAIN items |-> IF items[i][1] = key THEN <<key, value>> ELSE items[i]]
    ELSE Append(items, <<key, value>>)

\* for key, value in changes.items(): items[key] = value
RECURSIVE SetItems(_, _)
SetItems(items, changes) ==
    IF changes = << >> THEN items
    ELSE SetItems(SetItem(items, Head(changes)[1], Head(changes)[2]), Tail(changes))

(***************************************************************************)
(* Content Store: quest definitions, item rarities, recipes.  Read only.   *)
(***************************************************************************)
Users == {1}

QA == "The Ember's Awakening"
QB == "Trial of Ash"
QC == "The Oathkeeper's Rank"
\* a quest whose definition has no scene 1
QD == "The Hollow Road"

Vial == "Emberdust Vial"
Shard == "Relic Shard"
Fang == "Inferno Fang"

NoOutcomes == [state_changes |-> << >>, items_gained |-> EmptyDict, items_lost |-> EmptyDict]

\* outcomes that only assign state variables
StateChange(key, value) ==
    [state_changes |-> << <<key, value>> >>, items_gained |-> EmptyDict, items_lost |-> EmptyDict]

\* A text is the sequence of its pieces; a piece is either a placeholder,
\* "{" + key + "}", or text without braces.  str(value) of a state value is
\* one piece.
placeholder(key) ==
    CASE key = "met_elder" -> "{met_elder}"
      [] key = "rank" -> "{rank}"
      [] key = "title" -> "{title}"
      [] OTHER -> "{?}"

\* a choice record; next_scene "" stands for an absent next_scene (None)
Choice(id, conditions, outcomes, next_scene) ==
    [id |-> id, conditions |-> conditions, outcomes |-> outcomes, next_scene |-> next_scene]

scene_key(current_scene) == <<"scene_", current_scene>>

quests ==
    (QA :> [scenes |->
              (scene_key("1") :> [narrative |-> << "The ember stirs." >>,
                                  choices |-> <<
                  Choice("3A", EmptyDict,
                         [state_changes |-> << <<"met_elder", "true">> >>,
                          items_gained |-> (Vial :> 1),
                          items_lost |-> EmptyDict], "2") >>]) @@
              (scene_key("2") :> [narrative |-> << "The elder knows you: ", "{met_elder}" >>,
                                  choices |-> <<
                  Choice("2A", ("met_elder" :> "true"),
                         [state_changes |-> << >>,
                          items_gained |-> EmptyDict,
                          items_lost |-> (Vial :> 1)], "complete"),
                  Choice("2B", EmptyDict, NoOutcomes, "1") >>]),
            rewards |-> [xp |-> 10,
                         items |-> (Vial :> 1) @@ (Shard :> 1),
                         discoveries |-> EmptyDict]]) @@
    (QB :> [scenes |->
              (scene_key("1") :> [narrative |-> << "Ash falls." >>,
                                  choices |-> <<
                  Choice("1A", EmptyDict, NoOutcomes, "complete"),
                  Choice("1B", EmptyDict, NoOutcomes, "") >>]),
            rewards |-> [xp |-> 0,
                         items |-> EmptyDict,
                         discoveries |-> ("items" :> {Vial})]]) @@
    (QC :> [scenes |->
              (scene_key("1") :> [narrative |-> << "Hail, ", "{title}", " of rank ", "{rank}",
                                                   ", bearer of ", "{mystery}" >>,
                                  choices |-> <<
                  Choice("T1", EmptyDict, StateChange("title", "{rank}"), ""),
                  Choice("R1", EmptyDict, StateChange("rank", "3"), "1"),
                  Choice("R2", EmptyDict, StateChange("rank", "4"), "1"),
                  Choice("K1", ("rank" :> "3"), NoOutcomes, "2"),
                  Choice("X9", EmptyDict, NoOutcomes, "9") >>]) @@
              (scene_key("2") :> [narrative |-> << "The hall is silent." >>,
                                  choices |-> << >>]) @@
              (scene_key("3") :> [narrative |-> << "The oath is sworn." >>,
                                  choices |-> <<
                  Choice("F1", EmptyDict, NoOutcomes, "complete") >>]),
            rewards |-> [xp |-> 0, items |-> EmptyDict, discoveries |-> EmptyDict]]) @@
    (QD :> [scenes |->
              (scene_key("2") :> [narrative |-> << "The road ends here." >>,
                                  choices |-> <<
                  Choice("H1", EmptyDict, NoOutcomes, "complete") >>]),
            rewards |-> [xp |-> 0, items |-> EmptyDict, discoveries |-> EmptyDict]])

\* lore_manager.get_quest_info(quest_name): the definition, or None
has_quest_info(quest_name) == quest_name \in DOMAIN quests

\* lore_manager.get_item(item_name)["rarity"], "common" when the item is unknown
lore_items == (Vial :> "uncommon")

item_rarity(item_name) ==
    IF item_name \in DOMAIN lore_items THEN lore_items[item_name] ELSE "common"

Req(item, qty) == [item |-> item, qty |-> qty]

\* rows of crafting_recipes; requirements in JSON object order,
\* quest_requirements a JSON list
crafting_recipes ==
    (Fang :> [result_rarity |-> "epic",
              requirements |-> << Req(Vial, 1), Req(Shard, 2) >>,
              quest_requirements |-> << QA, QB >>]) @@
    (Shard :> [result_rarity |-> "rare",
               requirements |-> << Req(Vial, 1) >>,
               quest_requirements |-> << QB >>])

\* arguments the callers are drawn from
QuestNames == {QA, QB, "Lost Quest"}
ChoiceIds == {"3A", "2A", "2B", "1A", "1B", "9Z"}
\* the choice ids of the quest QC, and the id the Continue button sends
RankChoiceIds == {"T1", "R1", "R2", "K1", "X9", "continue"}
ItemNames == {Fang, Shard, Vial}

(***************************************************************************)
(* State.                                                                  *)
(***************************************************************************)
VARIABLES
    active_quests,    \* QuestManager.active_quests: user_id -> run
    user_inventory,   \* table, key <<user_id, item_name>>
    user_quests,      \* table, key <<user_id, quest_name>>
    user_progress,    \* table, key <<user_id, category, item_name>>
    decision_logs,    \* table, key <<user_id, quest_name, scene_id, choice_id>>
    user_relationships, \* table, key <<user_id, character_name>>
    clock,            \* what datetime('now') returns
    result,           \* what the last call returned to its caller
    crafting,         \* craft_item calls in progress (statement-level specs)
    choosing          \* make_choice calls in progress (statement-level specs)

vars == <<active_quests, user_inventory, user_quests, user_progress,
          decision_logs, user_relationships, clock, result, crafting, choosing>>

tables == <<user_inventory, user_quests, user_progress, decision_logs, user_relationships>>

NoMissing == << >>

\* a returned message: a reason code with the names and figures it carries
Msg(code, name, missing) == [code |-> code, name |-> name, missing |-> missing]

\* the third member of a returned tuple: {} ("none"), the processed scene
\* ("scene", its narrative and choices) or the completion data
\* ("completion", the lines of its reward text)
Payload(kind, narrative, choices, lines) ==
    [kind |-> kind, narrative |-> narrative, choices |-> choices, lines |-> lines]

NoPayload == Payload("none", << >>, << >>, << >>)

\* the (success, message, data) a call returns, tagged with the operation called
ResultWith(op, success, message, payload) ==
    [op |-> op, success |-> success, message |-> message, payload |-> payload]

\* a return with {} for its data
Result(op, success, message) == ResultWith(op, success, message, NoPayload)

Init ==
    /\ active_quests = EmptyDict
    /\ user_inventory = EmptyDict
    /\ user_quests = EmptyDict
    /\ user_progress = EmptyDict
    /\ decision_logs = EmptyDict
    /\ user_relationships = EmptyDict
    /\ clock = 0
    /\ result = Result("init", TRUE, Msg("", "", NoMissing))
    /\ crafting = EmptyDict
    /\ choosing = EmptyDict

\* a second goes by
Tick ==
    /\ clock < MaxClock
    /\ clock' = clock + 1
    /\ UNCHANGED <<active_quests, tables, result, crafting, choosing>>

(***************************************************************************)
(* Progress Store statements.                                              *)
(***************************************************************************)
\* a NULL timestamp column
NoDate == -1

\* the inventory keyed by the item alone, one row for all players
InvKeyByItem(user_id, item_name) == <<1, item_name>>

\* PRIMARY KEY (user_id, item_name) of user_inventory
InvKey(user_id, item_name) == <<user_id, item_name>>

\* UPDATE user_inventory SET quantity = quantity + delta WHERE key
UpdateQuantity(inv, user_id, item_name, delta) ==
    IF InvKey(user_id, item_name) \in DOMAIN inv
    THEN [inv EXCEPT ![InvKey(user_id, item_name)].quantity = @ + delta]
    ELSE inv

\* INSERT INTO user_inventory: refused by the primary key when the row is
\* there, and execute_query swallows the error
InsertItem(inv, user_id, item_name, rarity, quantity) ==
    IF InvKey(user_id, item_name) \in DOMAIN inv
    THEN inv
    ELSE Put(inv, InvKey(user_id, item_name), [rarity |-> rarity, quantity |-> quantity])

\* Database.record_discovery on the user_progress table
record_discovery(progress, user_id, category, item_name, now) ==
    IF <<user_id, category, item_name>> \in DOMAIN progress
    THEN [progress EXCEPT ![<<user_id, category, item_name>>] =
              [discovered |-> TRUE, discovery_date |-> now]]
    ELSE Put(progress, <<user_id, category, item_name>>,
             [discovered |-> TRUE, discovery_date |-> now])

(***************************************************************************)
(* Quest Engine.                                                           *)
(***************************************************************************)
NewRun(quest_name) ==
    [quest_name |-> quest_name, current_scene |-> "1",
     inventory |-> EmptyDict, state |-> << >>]

\* narrative.replace(placeholder, str(value)) for one state variable
replace_placeholder(narrative, key, value) ==
    [i \in DOMAIN narrative |->
        IF narrative[i] = placeholder(key) THEN value ELSE narrative[i]]

\* "Replace variables" of _process_dynamic_content: one replace after
\* another, in the order of quest_state["state"].items()
RECURSIVE replace_variables(_, _)
replace_variables(narrative, state) ==
    IF state = << >> THEN narrative
    ELSE replace_variables(replace_placeholder(narrative, Head(state)[1], Head(state)[2]),
                           Tail(state))

\* a condition on a variable the state does not hold counts as met
conditions_met_when_unset(conditions, state) ==
    \A k \in DOMAIN conditions : ~HasKey(state, k) \/ ItemValue(state, k) = conditions[k]

\* conditions_met of _process_dynamic_content: state.get(key) == value for
\* every condition of the choice
conditions_met(conditions, state) ==
    \A k \in DOMAIN conditions : HasKey(state, k) /\ ItemValue(state, k) = conditions[k]

\* processed_choices of _process_dynamic_content
RECURSIVE processed_choices(_, _)
processed_choices(choices, state) ==
    IF choices = << >> THEN << >>
    ELSE (IF conditions_met(Head(choices).conditions, state)
          THEN << Head(choices) >> ELSE << >>)
             \o processed_choices(Tail(choices), state)

\* QuestManager._process_dynamic_content
process_dynamic_content(scene_data, quest_state) ==
    Payload("scene", replace_variables(scene_data.narrative, quest_state.state),
            processed_choices(scene_data.choices, quest_state.state), << >>)

\* QuestManager._get_scene_data, on the run map aq
get_scene_data(aq, user_id) ==
    IF user_id \notin DOMAIN aq
    THEN [success |-> FALSE, message |-> Msg("no_active_quest", "", NoMissing),
          payload |-> NoPayload]
    ELSE IF ~has_quest_info(aq[user_id].quest_name)
    THEN [success |-> FALSE, message |-> Msg("quest_not_found", aq[user_id].quest_name, NoMissing),
          payload |-> NoPayload]
    ELSE IF scene_key(aq[user_id].current_scene) \notin DOMAIN quests[aq[user_id].quest_name].scenes
    THEN [success |-> FALSE, message |-> Msg("scene_not_found", aq[user_id].current_scene, NoMissing),
          payload |-> NoPayload]
    ELSE [success |-> TRUE, message |-> Msg("", "", NoMissing),
          payload |-> process_dynamic_content(
                          quests[aq[user_id].quest_name].scenes[scene_key(aq[user_id].current_scene)],
                          aq[user_id])]

\* the quest-log row of a start with no started_date
ActiveRowUndated(now) ==
    [status |-> "active", current_scene |-> "1",
     started_date |-> NoDate, completed_date |-> NoDate]

\* the row INSERT OR REPLACE INTO user_quests writes in start_quest
ActiveRow(now) ==
    [status |-> "active", current_scene |-> "1",
     started_date |-> now, completed_date |-> NoDate]

\* "Check if user is already on a quest" of start_quest, without it
already_on_quest_unchecked(user_id) == FALSE

\* "Check if user is already on a quest" of start_quest
already_on_quest(user_id) == user_id \in DOMAIN active_quests

\* QuestManager.start_quest
start_quest(user_id, quest_name) ==
    IF already_on_quest(user_id)
    THEN /\ result' = Result("start_quest", FALSE,
                             Msg("already_on_quest", "", NoMissing))
         /\ UNCHANGED <<active_quests, tables, clock, crafting, choosing>>
    ELSE IF ~has_quest_info(quest_name)
    THEN /\ result' = Result("start_quest", FALSE,
                             Msg("quest_not_found", quest_name, NoMissing))
         /\ UNCHANGED <<active_quests, tables, clock, crafting, choosing>>
    ELSE /\ active_quests' = Put(active_quests, user_id, NewRun(quest_name))
         /\ user_quests' = Put(user_quests, <<user_id, quest_name>>, ActiveRow(clock))
         /\ LET scene == get_scene_data(active_quests', user_id)
            IN result' = ResultWith("start_quest", scene.success, scene.message, scene.payload)
         /\ UNCHANGED <<user_inventory, user_progress, decision_logs, clock, crafting, choosing, user_relationships>>

\* index of the first choice of the scene with this id, 0 when there is none
FindChoice(choices, choice_id) ==
    IF \E i \in DOMAIN choices : choices[i].id = choice_id
    THEN CHOOSE i \in DOMAIN choices :
             /\ choices[i].id = choice_id
             /\ \A j \in DOMAIN choices : choices[j].id = choice_id => i <= j
    ELSE 0

\* quest_state["inventory"] after the items_gained loop
GainItems(inventory, items_gained) ==
    [i \in (DOMAIN inventory) \cup (DOMAIN items_gained) |->
        IF i \notin DOMAIN items_gained THEN inventory[i]
        ELSE IF i \in DOMAIN inventory THEN inventory[i] + items_gained[i]
        ELSE items_gained[i]]

\* quest_state["inventory"] after the items_lost loop
LoseItems(inventory, items_lost) ==
    LET kept == {i \in DOMAIN inventory :
                    i \in DOMAIN items_lost => ~(inventory[i] - items_lost[i] <= 0)}
    IN [i \in kept |-> IF i \in DOMAIN items_lost
                       THEN inventory[i] - items_lost[i] ELSE inventory[i]]

\* the run after the outcomes of the chosen choice
ApplyOutcomes(run, outcomes) ==
    [run EXCEPT !.state = SetItems(@, outcomes.state_changes),
                !.inventory = LoseItems(GainItems(@, outcomes.items_gained),
                                        outcomes.items_lost)]

\* one reward item that only ever inserts: a row that exists stays as it is
RewardItemNewRowsOnly(inv, user_id, item_name, quantity) ==
    InsertItem(inv, user_id, item_name, item_rarity(item_name), quantity)

\* user_inventory after one reward item of _complete_quest
RewardItem(inv, user_id, item_name, quantity) ==
    IF InvKey(user_id, item_name) \in DOMAIN inv
    THEN UpdateQuantity(inv, user_id, item_name, quantity)
    ELSE InsertItem(inv, user_id, item_name, item_rarity(item_name), quantity)

RECURSIVE RewardItems(_, _, _, _)
RewardItems(inv, user_id, items, todo) ==
    IF todo = {} THEN inv
    ELSE LET i == CHOOSE x \in todo : TRUE
         IN RewardItems(RewardItem(inv, user_id, i, items[i]), user_id, items, todo \ {i})

\* the (category, item) pairs of rewards["discoveries"]
RewardDiscoveries(discoveries) ==
    UNION {{<<c, i>> : i \in discoveries[c]} : c \in DOMAIN discoveries}

RECURSIVE RecordDiscoveries(_, _, _, _)
RecordDiscoveries(progress, user_id, todo, now) ==
    IF todo = {} THEN progress
    ELSE LET d == CHOOSE x \in todo : TRUE
         IN RecordDiscoveries(record_discovery(progress, user_id, d[1], d[2], now),
                              user_id, todo \ {d}, now)

\* a line of reward_text
Line(kind, name, quantity) == [kind |-> kind, name |-> name, quantity |-> quantity]

\* the lines the "Item rewards" loop adds to reward_text
RECURSIVE ItemLines(_, _)
ItemLines(items, todo) ==
    IF todo = {} THEN << >>
    ELSE LET i == CHOOSE x \in todo : TRUE
         IN << Line("item", i, items[i]) >> \o ItemLines(items, todo \ {i})

\* the lines the "Lore discoveries" loop adds to reward_text
RECURSIVE DiscoveryLines(_)
DiscoveryLines(todo) ==
    IF todo = {} THEN << >>
    ELSE LET d == CHOOSE x \in todo : TRUE
         IN << Line("lore", d[2], 0) >> \o DiscoveryLines(todo \ {d})

\* reward_text of _complete_quest after its heading, line by line
reward_text(rewards) ==
    << Line("xp", "", rewards.xp) >>
        \o ItemLines(rewards.items, DOMAIN rewards.items)
        \o DiscoveryLines(RewardDiscoveries(rewards.discoveries))

\* the quest-log row of a completion with no completed_date
CompletedRowUndated(row, now) == [row EXCEPT !.status = "completed"]

\* UPDATE user_quests SET status = 'completed', completed_date = now
CompletedRow(row, now) == [row EXCEPT !.status = "completed", !.completed_date = now]

\* QuestManager._complete_quest, called by make_choice with the run map aq
\* and the user_quests table uq that make_choice has already written
complete_quest(user_id, aq, uq, choice_id) ==
    LET quest_name == aq[user_id].quest_name
        rewards == quests[quest_name].rewards
    IN /\ user_quests' =
              IF <<user_id, quest_name>> \in DOMAIN uq
              THEN [uq EXCEPT ![<<user_id, quest_name>>] = CompletedRow(@, clock)]
              ELSE uq
       /\ user_progress' =
              RecordDiscoveries(
                  record_discovery(user_progress, user_id, "quests", quest_name, clock),
                  user_id, RewardDiscoveries(rewards.discoveries), clock)
       /\ user_inventory' = RewardItems(user_inventory, user_id, rewards.items,
                                        DOMAIN rewards.items)
       /\ active_quests' = Del(aq, user_id)
       /\ result' = ResultWith("make_choice", TRUE,
                               Msg("quest_completed", quest_name, NoMissing),
                               Payload("completion", << >>, << >>, reward_text(rewards)))

\* the failure of make_choice for an unknown choice, told as no active quest
choice_not_found_as_no_quest(choice_id) == Msg("no_active_quest", "", NoMissing)

\* "if not chosen_choice" of make_choice
choice_not_found(choice_id) == Msg("choice_not_found", choice_id, NoMissing)

\* "Record the decision" left out
RecordDecisionSkipped(logs, user_id, quest_name, scene_id, choice_id, now) == logs

\* "Record the decision" of make_choice: INSERT OR REPLACE INTO decision_logs
RecordDecision(logs, user_id, quest_name, scene_id, choice_id, now) ==
    Put(logs, <<user_id, quest_name, scene_id, choice_id>>, now)

\* make_choice after the decision is recorded: "Process choice outcomes" and
\* "Move to next scene", for the choice choice_id of the scene the run is on
resolve_choice(user_id, choice_id) ==
    LET quest_state == active_quests[user_id]
        quest_name == quest_state.quest_name
        current_scene == quest_state.current_scene
        choices == quests[quest_name].scenes[scene_key(current_scene)].choices
        chosen_choice == choices[FindChoice(choices, choice_id)]
        next_scene == chosen_choice.next_scene
        after_outcomes == ApplyOutcomes(quest_state, chosen_choice.outcomes)
        moved == [after_outcomes EXCEPT !.current_scene = next_scene]
        uq_moved == IF <<user_id, quest_name>> \in DOMAIN user_quests
                    THEN [user_quests EXCEPT ![<<user_id, quest_name>>].current_scene = next_scene]
                    ELSE user_quests
    IN
    /\ \A i \in DOMAIN after_outcomes.inventory : after_outcomes.inventory[i] <= MaxQty
    /\ IF next_scene = ""
       THEN /\ active_quests' = Put(active_quests, user_id, after_outcomes)
            /\ result' = Result("make_choice", FALSE,
                                Msg("no_next_scene", "", NoMissing))
            /\ UNCHANGED <<user_inventory, user_quests, user_progress>>
       ELSE IF next_scene = "complete"
       THEN /\ complete_quest(user_id, Put(active_quests, user_id, moved), uq_moved, choice_id)
            /\ \A k \in DOMAIN user_inventory' : user_inventory'[k].quantity <= MaxQty
       ELSE /\ active_quests' = Put(active_quests, user_id, moved)
            /\ user_quests' = uq_moved
            /\ LET scene == get_scene_data(active_quests', user_id)
               IN result' = ResultWith("make_choice", scene.success, scene.message,
                                       scene.payload)
            /\ UNCHANGED <<user_inventory, user_progress>>

\* QuestManager.make_choice
make_choice(user_id, choice_id) ==
    IF user_id \notin DOMAIN active_quests
    THEN /\ result' = Result("make_choice", FALSE,
                             Msg("no_active_quest", "", NoMissing))
         /\ UNCHANGED <<active_quests, tables, clock, crafting, choosing>>
    ELSE
    LET quest_state == active_quests[user_id]
        quest_name == quest_state.quest_name
        current_scene == quest_state.current_scene
    IN
    IF ~has_quest_info(quest_name)
    THEN /\ result' = Result("make_choice", FALSE,
                             Msg("quest_not_found", quest_name, NoMissing))
         /\ UNCHANGED <<active_quests, tables, clock, crafting, choosing>>
    ELSE IF scene_key(current_scene) \notin DOMAIN quests[quest_name].scenes
    THEN /\ result' = Result("make_choice", FALSE,
                             Msg("scene_not_found", current_scene, NoMissing))
         /\ UNCHANGED <<active_quests, tables, clock, crafting, choosing>>
    ELSE IF FindChoice(quests[quest_name].scenes[scene_key(current_scene)].choices,
                       choice_id) = 0
    THEN /\ result' = Result("make_choice", FALSE, choice_not_found(choice_id))
         /\ UNCHANGED <<active_quests, tables, clock, crafting, choosing>>
    ELSE /\ decision_logs' = RecordDecision(decision_logs, user_id, quest_name,
                                            scene_key(current_scene), choice_id, clock)
         /\ resolve_choice(user_id, choice_id)
         /\ UNCHANGED <<clock, crafting, choosing, user_relationships>>

\* QuestManager.abandon_quest
abandon_quest(user_id) ==
    IF user_id \notin DOMAIN active_quests
    THEN /\ result' = Result("abandon_quest", FALSE,
                             Msg("no_active_quest", "", NoMissing))
         /\ UNCHANGED <<active_quests, tables, clock, crafting, choosing>>
    ELSE LET quest_name == active_quests[user_id].quest_name
         IN /\ user_quests' =
                   IF <<user_id, quest_name>> \in DOMAIN user_quests
                   THEN [user_quests EXCEPT ![<<user_id, quest_name>>].status = "abandoned"]
                   ELSE user_quests
            /\ active_quests' = Del(active_quests, user_id)
            /\ result' = Result("abandon_quest", TRUE,
                                Msg("abandoned", quest_name, NoMissing))
            /\ UNCHANGED <<user_inventory, user_progress, decision_logs, clock, crafting, choosing, user_relationships>>

\* QuestManager.get_current_quest
get_current_quest(user_id) ==
    /\ result' =
           IF user_id \notin DOMAIN active_quests
           THEN Result("get_current_quest", FALSE, Msg("no_active_quest", "", NoMissing))
           ELSE IF ~has_quest_info(active_quests[user_id].quest_name)
           THEN Result("get_current_quest", FALSE,
                       Msg("quest_not_found", active_quests[user_id].quest_name, NoMissing))
           ELSE LET scene == get_scene_data(active_quests, user_id)
                IN ResultWith("get_current_quest", scene.success, scene.message, scene.payload)
    /\ UNCHANGED <<active_quests, tables, clock, crafting, choosing>>

\* lore_manager.get_quests(): the names of the quests of the content
get_quests == DOMAIN quests

\* completed_quests of get_available_quests
completed_quests(progress, user_id) ==
    {k[3] : k \in {x \in DOMAIN progress :
                      x[1] = user_id /\ x[2] = "quests" /\ progress[x].discovered}}

\* QuestManager.get_available_quests: the list it returns, as the set of its
\* entries
get_available_quests(user_id) ==
    /\ result' =
           [op |-> "get_available_quests", success |-> TRUE,
            message |-> Msg("", "", NoMissing), payload |-> NoPayload,
            quests |-> {[name |-> quest_name,
                         completed |-> quest_name \in completed_quests(user_progress, user_id)] :
                           quest_name \in {q \in get_quests : has_quest_info(q)}}]
    /\ UNCHANGED <<active_quests, tables, clock, crafting, choosing>>

(***************************************************************************)
(* Crafting Resolver.                                                      *)
(***************************************************************************)
\* inventory_dict.get(req_item, 0)
available_quantity(inv, user_id, item_name) ==
    IF InvKey(user_id, item_name) \in DOMAIN inv
    THEN inv[InvKey(user_id, item_name)].quantity
    ELSE 0

\* requirements_status with entries for the short items only
requirements_status_short_only(inv, user_id, requirements) ==
    [i \in {requirements[k].item : k \in {j \in DOMAIN requirements :
                available_quantity(inv, user_id, requirements[j].item) < requirements[j].qty}} |->
        LET r == requirements[CHOOSE k \in DOMAIN requirements : requirements[k].item = i]
        IN [required |-> r.qty,
            available |-> available_quantity(inv, user_id, i),
            sufficient |-> FALSE]]

\* requirements_status of can_craft_item: one entry per required item
requirements_status(inv, user_id, requirements) ==
    [i \in {requirements[k].item : k \in DOMAIN requirements} |->
        LET r == requirements[CHOOSE k \in DOMAIN requirements : requirements[k].item = i]
        IN [required |-> r.qty,
            available |-> available_quantity(inv, user_id, i),
            sufficient |-> available_quantity(inv, user_id, i) >= r.qty]]

\* missing_items of can_craft_item, in the order of the requirements
RECURSIVE missing_items(_, _, _)
missing_items(inv, user_id, requirements) ==
    IF requirements = << >> THEN << >>
    ELSE LET r == Head(requirements)
             a == available_quantity(inv, user_id, r.item)
         IN (IF a < r.qty
             THEN << [item |-> r.item, available |-> a, required |-> r.qty] >>
             ELSE << >>) \o missing_items(inv, user_id, Tail(requirements))

\* SELECT * FROM user_progress WHERE ... category = 'quests' AND discovered = TRUE
quest_discovered(progress, user_id, quest_name) ==
    /\ <<user_id, "quests", quest_name>> \in DOMAIN progress
    /\ progress[<<user_id, "quests", quest_name>>].discovered

\* the quest check of can_craft_item: "" when it passes, else the quest named
unmet_quest(progress, user_id, quest_requirements) ==
    IF quest_requirements # << >>
       /\ ~quest_discovered(progress, user_id, quest_requirements[1])
    THEN quest_requirements[1]
    ELSE ""

\* Database.can_craft_item on the tables inv and progress
can_craft_item(inv, progress, user_id, item_name) ==
    IF item_name \notin DOMAIN crafting_recipes
    THEN [can_craft |-> FALSE, message |-> Msg("no_recipe", item_name, NoMissing),
          status |-> EmptyDict]
    ELSE
    LET recipe == crafting_recipes[item_name]
        status == requirements_status(inv, user_id, recipe.requirements)
        missing == missing_items(inv, user_id, recipe.requirements)
        unmet == unmet_quest(progress, user_id, recipe.quest_requirements)
    IN IF missing # << >>
       THEN [can_craft |-> FALSE, message |-> Msg("missing_items", "", missing),
             status |-> status]
       ELSE IF unmet # ""
       THEN [can_craft |-> FALSE, message |-> Msg("quest_required", unmet, NoMissing),
             status |-> status]
       ELSE [can_craft |-> TRUE, message |-> Msg("can_craft", "", NoMissing),
             status |-> status]

\* the clean-up DELETE with quantity < 0 for its condition
DeleteEmptyNegativeOnly(inv, user_id, item_name) ==
    IF InvKey(user_id, item_name) \in DOMAIN inv
       /\ inv[InvKey(user_id, item_name)].quantity < 0
    THEN Del(inv, InvKey(user_id, item_name))
    ELSE inv

\* DELETE FROM user_inventory WHERE key AND quantity <= 0
DeleteEmpty(inv, user_id, item_name) ==
    IF InvKey(user_id, item_name) \in DOMAIN inv
       /\ inv[InvKey(user_id, item_name)].quantity <= 0
    THEN Del(inv, InvKey(user_id, item_name))
    ELSE inv

\* one turn of the consume loop taking one unit whatever the recipe asks
ConsumeItemByOne(inv, user_id, req) ==
    DeleteEmpty(UpdateQuantity(inv, user_id, req.item, 0 - 1), user_id, req.item)

\* one turn of the "Consume required items" loop of craft_item
ConsumeItem(inv, user_id, req) ==
    DeleteEmpty(UpdateQuantity(inv, user_id, req.item, 0 - req.qty), user_id, req.item)

RECURSIVE ConsumeItems(_, _, _)
ConsumeItems(inv, user_id, requirements) ==
    IF requirements = << >> THEN inv
    ELSE ConsumeItems(ConsumeItem(inv, user_id, Head(requirements)), user_id, Tail(requirements))

\* "Add crafted item to inventory" of craft_item
AddCrafted(inv, user_id, item_name, result_rarity) ==
    IF InvKey(user_id, item_name) \in DOMAIN inv
    THEN UpdateQuantity(inv, user_id, item_name, 1)
    ELSE InsertItem(inv, user_id, item_name, result_rarity, 1)

\* the refusal of craft_item with a message of its own
refusal_generic(check) == Msg("craft_failed", "", NoMissing)

\* "if not can_craft: return False, message" of craft_item
refusal(check) == check.message

\* Database.craft_item, run from call to return with nothing in between
craft_item(user_id, item_name) ==
    LET check == can_craft_item(user_inventory, user_progress, user_id, item_name)
    IN IF ~check.can_craft
       THEN /\ result' = Result("craft_item", FALSE, refusal(check))
            /\ UNCHANGED <<active_quests, tables, clock, crafting, choosing>>
       ELSE LET recipe == crafting_recipes[item_name]
            IN /\ user_inventory' =
                      AddCrafted(ConsumeItems(user_inventory, user_id, recipe.requirements),
                                 user_id, item_name, recipe.result_rarity)
               /\ \A k \in DOMAIN user_inventory' : user_inventory'[k].quantity <= MaxQty
               /\ result' = Result("craft_item", TRUE,
                                   Msg("crafted", item_name, NoMissing))
               /\ UNCHANGED <<active_quests, user_quests, user_progress,
                              decision_logs, clock, crafting, choosing, user_relationships>>

(***************************************************************************)
(* The engine as its callers drive it, one call at a time.                 *)
(***************************************************************************)
Next ==
    \/ \E user_id \in Users, quest_name \in QuestNames : start_quest(user_id, quest_name)
    \/ \E user_id \in Users, choice_id \in ChoiceIds : make_choice(user_id, choice_id)
    \/ \E user_id \in Users : abandon_quest(user_id)
    \/ \E user_id \in Users, item_name \in ItemNames : craft_item(user_id, item_name)

Spec == Init /\ [][Next]_vars

\* the quest calls with seconds going by between them
NextClock ==
    \/ Tick
    \/ \E user_id \in Users, quest_name \in QuestNames : start_quest(user_id, quest_name)
    \/ \E user_id \in Users, choice_id \in ChoiceIds : make_choice(user_id, choice_id)
    \/ \E user_id \in Users : abandon_quest(user_id)

SpecClock == Init /\ [][NextClock]_vars

(***************************************************************************)
(* Database.craft_item statement by statement.  Every execute_query runs   *)
(* one statement and commits it, so each step below is durable on its own. *)
(* crafting[r] is the call r in progress: where it stands (pc), the        *)
(* requirements still to consume (todo), what its SELECT of the result row *)
(* found (existing), the inventory table when it was called (pre) and      *)
(* whether another call was in progress during it (overlapped).            *)
(***************************************************************************)
Requests == {1, 2}

QuestCalls ==
    \/ \E user_id \in Users, quest_name \in QuestNames : start_quest(user_id, quest_name)
    \/ \E user_id \in Users, choice_id \in ChoiceIds : make_choice(user_id, choice_id)
    \/ \E user_id \in Users : abandon_quest(user_id)

InProgress == {r \in DOMAIN crafting : crafting[r].pc \notin {"returned", "crashed"}}

\* the other calls, marked as overlapped when they are in progress
Overlapping(others) ==
    [x \in DOMAIN others |->
        [others[x] EXCEPT !.overlapped = @ \/ others[x].pc \notin {"returned", "crashed"}]]

\* the call, up to the return of can_craft_item and the SELECT of the recipe
CraftCall(r, user_id, item_name) ==
    /\ r \notin InProgress
    /\ \A x \in DOMAIN crafting : crafting[x].pc # "crashed"
    /\ available_quantity(user_inventory, user_id, item_name)
           + Cardinality(InProgress) + 1 <= MaxQty
    /\ LET check == can_craft_item(user_inventory, user_progress, user_id, item_name)
           call == [user_id |-> user_id, item_name |-> item_name,
                    pc |-> "returned", todo |-> << >>,
                    pre |-> user_inventory, existing |-> FALSE,
                    first |-> InProgress = {}, overlapped |-> InProgress # {},
                    success |-> FALSE, message |-> refusal(check)]
       IN IF ~check.can_craft
          THEN /\ crafting' = Put(Overlapping(crafting), r, call)
               /\ result' = Result("craft_item", FALSE, refusal(check))
          ELSE /\ crafting' =
                      Put(Overlapping(crafting), r,
                          [call EXCEPT
                              !.pc = IF crafting_recipes[item_name].requirements = << >>
                                     THEN "select" ELSE "update",
                              !.todo = crafting_recipes[item_name].requirements])
               /\ UNCHANGED result
    /\ UNCHANGED <<active_quests, tables, clock, choosing>>

\* UPDATE user_inventory SET quantity = quantity - ? of the consume loop
CraftUpdate(r) ==
    /\ r \in DOMAIN crafting
    /\ crafting[r].pc = "update"
    /\ user_inventory' = UpdateQuantity(user_inventory, crafting[r].user_id,
                                        Head(crafting[r].todo).item,
                                        0 - Head(crafting[r].todo).qty)
    /\ crafting' = [crafting EXCEPT ![r].pc = "delete"]
    /\ UNCHANGED <<active_quests, user_quests, user_progress, decision_logs, clock, result, choosing, user_relationships>>

\* DELETE FROM user_inventory ... AND quantity <= 0 of the consume loop
CraftDelete(r) ==
    /\ r \in DOMAIN crafting
    /\ crafting[r].pc = "delete"
    /\ user_inventory' = DeleteEmpty(user_inventory, crafting[r].user_id,
                                     Head(crafting[r].todo).item)
    /\ crafting' = [crafting EXCEPT ![r].todo = Tail(@),
                                    ![r].pc = IF Tail(crafting[r].todo) = << >>
                                              THEN "select" ELSE "update"]
    /\ UNCHANGED <<active_quests, user_quests, user_progress, decision_logs, clock, result, choosing, user_relationships>>

\* SELECT * FROM user_inventory for the result item
CraftSelect(r) ==
    /\ r \in DOMAIN crafting
    /\ crafting[r].pc = "select"
    /\ crafting' = [crafting EXCEPT
                       ![r].existing = InvKey(crafting[r].user_id, crafting[r].item_name)
                                           \in DOMAIN user_inventory,
                       ![r].pc = "add"]
    /\ UNCHANGED <<active_quests, tables, clock, result, choosing>>

\* the UPDATE quantity + 1 or the INSERT of the result row, and the return
CraftAdd(r) ==
    /\ r \in DOMAIN crafting
    /\ crafting[r].pc = "add"
    /\ user_inventory' =
           IF crafting[r].existing
           THEN UpdateQuantity(user_inventory, crafting[r].user_id, crafting[r].item_name, 1)
           ELSE InsertItem(user_inventory, crafting[r].user_id, crafting[r].item_name,
                           crafting_recipes[crafting[r].item_name].result_rarity, 1)
    /\ crafting' = [crafting EXCEPT ![r].pc = "returned", ![r].success = TRUE,
                                    ![r].message = Msg("crafted", crafting[r].item_name, NoMissing)]
    /\ result' = Result("craft_item", TRUE, Msg("crafted", crafting[r].item_name, NoMissing))
    /\ UNCHANGED <<active_quests, user_quests, user_progress, decision_logs, clock, choosing, user_relationships>>

\* the process dies between two statements of a call and is started again:
\* committed rows stay, the process memory is gone
Crash ==
    /\ \E r \in DOMAIN crafting : crafting[r].pc \in {"update", "delete", "select", "add"}
    /\ crafting' = [r \in DOMAIN crafting |->
                       IF crafting[r].pc = "returned" THEN crafting[r]
                       ELSE [crafting[r] EXCEPT !.pc = "crashed"]]
    /\ active_quests' = EmptyDict
    /\ result' = Result("crash", FALSE, Msg("", "", NoMissing))
    /\ UNCHANGED <<tables, clock, choosing>>

\* one craft_item call at a time, which a crash may interrupt
NextCrash ==
    \/ (\A r \in DOMAIN crafting : crafting[r].pc = "returned") /\ QuestCalls
    \/ \E user_id \in Users, item_name \in ItemNames : CraftCall(1, user_id, item_name)
    \/ CraftUpdate(1)
    \/ CraftDelete(1)
    \/ CraftSelect(1)
    \/ CraftAdd(1)
    \/ Crash

SpecCrash == Init /\ [][NextCrash]_vars

\* quest calls, then two craft_item calls whose statements interleave
NextOverlap ==
    \/ crafting = EmptyDict /\ QuestCalls
    \/ \E r \in Requests, user_id \in Users, item_name \in ItemNames :
           r \notin DOMAIN crafting /\ CraftCall(r, user_id, item_name)
    \/ \E r \in Requests : CraftUpdate(r)
    \/ \E r \in Requests : CraftDelete(r)
    \/ \E r \in Requests : CraftSelect(r)
    \/ \E r \in Requests : CraftAdd(r)

SpecOverlap == Init /\ [][NextOverlap]_vars

(***************************************************************************)
(* QuestManager.make_choice in two steps: up to the committed INSERT OR    *)
(* REPLACE of the decision, then everything after it.  choosing[user_id]   *)
(* is the call in progress: the choice and the log key it recorded.        *)
(***************************************************************************)
\* the run of user_id is on a scene that has the choice choice_id:
\* make_choice gets as far as recording the decision
ChoiceLocated(user_id, choice_id) ==
    /\ user_id \in DOMAIN active_quests
    /\ has_quest_info(active_quests[user_id].quest_name)
    /\ scene_key(active_quests[user_id].current_scene)
           \in DOMAIN quests[active_quests[user_id].quest_name].scenes
    /\ FindChoice(quests[active_quests[user_id].quest_name]
                      .scenes[scene_key(active_quests[user_id].current_scene)].choices,
                  choice_id) # 0

\* the call, up to a failure return or to the recording of the decision
ChoiceCall(user_id, choice_id) ==
    /\ choosing = EmptyDict
    /\ IF ~ChoiceLocated(user_id, choice_id)
       THEN make_choice(user_id, choice_id)
       ELSE LET quest_name == active_quests[user_id].quest_name
                scene_id == scene_key(active_quests[user_id].current_scene)
            IN /\ decision_logs' = RecordDecision(decision_logs, user_id, quest_name,
                                                  scene_id, choice_id, clock)
               /\ choosing' = Put(choosing, user_id,
                                  [choice_id |-> choice_id,
                                   key |-> <<user_id, quest_name, scene_id, choice_id>>])
               /\ UNCHANGED <<active_quests, user_inventory, user_quests, user_progress,
                              clock, result, crafting, user_relationships>>

\* the rest of the call: outcomes, next scene, completion, return
ChoiceResolve(user_id) ==
    /\ user_id \in DOMAIN choosing
    /\ resolve_choice(user_id, choosing[user_id].choice_id)
    /\ choosing' = Del(choosing, user_id)
    /\ UNCHANGED <<decision_logs, clock, crafting, user_relationships>>

\* quest calls one at a time, make_choice in its two steps
NextChoice ==
    \/ \E user_id \in Users, quest_name \in QuestNames :
           choosing = EmptyDict /\ start_quest(user_id, quest_name)
    \/ \E user_id \in Users : choosing = EmptyDict /\ abandon_quest(user_id)
    \/ \E user_id \in Users, choice_id \in ChoiceIds : ChoiceCall(user_id, choice_id)
    \/ \E user_id \in Users : ChoiceResolve(user_id)

SpecChoice == Init /\ [][NextChoice]_vars

(***************************************************************************)
(* The quest calls and the two read calls on the quest QC, whose scenes    *)
(* have placeholders, a conditional choice, a choice without a next scene, *)
(* a choice to a scene that is not there and a scene without choices.      *)
(***************************************************************************)
NextRank ==
    \/ \E user_id \in Users : start_quest(user_id, QC)
    \/ \E user_id \in Users, choice_id \in RankChoiceIds : make_choice(user_id, choice_id)
    \/ \E user_id \in Users : abandon_quest(user_id)
    \/ \E user_id \in Users : get_current_quest(user_id)
    \/ \E user_id \in Users : get_available_quests(user_id)

SpecRank == Init /\ [][NextRank]_vars

(***************************************************************************)
(* Properties.                                                             *)
(***************************************************************************)
\* C1: every stored inventory row has a quantity of at least 1: no row is
\* negative and no row with quantity 0 is stored.
C1_InventoryRowsPositive ==
    \A k \in DOMAIN user_inventory : user_inventory[k].quantity >= 1

\* a craft has just used up the whole stock of one input and part of another
C1_Witness ==
    /\ result.op = "craft_item" /\ result.success /\ result.message.name = Fang
    /\ InvKey(1, Shard) \notin DOMAIN user_inventory
    /\ InvKey(1, Vial) \in DOMAIN user_inventory

\* C2: the decision log is append-only: no step changes or removes a row, and
\* every applied choice adds one row, also when the same choice is applied
\* a second time.
C2_DecisionLogAppendOnly ==
    [][ /\ \A k \in DOMAIN decision_logs :
               k \in DOMAIN decision_logs' /\ decision_logs'[k] = decision_logs[k]
        /\ \A user_id \in Users, choice_id \in ChoiceIds :
               (ChoiceLocated(user_id, choice_id) /\ make_choice(user_id, choice_id))
                   => Cardinality(DOMAIN decision_logs')
                          = Cardinality(DOMAIN decision_logs) + 1 ]_vars

\* C3: start_quest on a quest the player has an active run of fails as
\* already active and creates no second run; every quest-log row with status
\* active is the one run the player has, so no (player, quest) pair has two.
C3_StartRejectsActiveRun ==
    /\ [](\A k \in DOMAIN user_quests :
              user_quests[k].status = "active"
                  => /\ k[1] \in DOMAIN active_quests
                     /\ active_quests[k[1]].quest_name = k[2])
    /\ [][\A user_id \in Users, quest_name \in QuestNames :
              (/\ user_id \in DOMAIN active_quests
               /\ active_quests[user_id].quest_name = quest_name
               /\ start_quest(user_id, quest_name))
                  => /\ ~result'.success
                     /\ result'.message.code = "already_on_quest"
                     /\ active_quests' = active_quests
                     /\ user_quests' = user_quests]_vars

\* a start was refused while the player's run had already moved on
C3_Witness ==
    /\ result.op = "start_quest" /\ ~result.success
    /\ result.message.code = "already_on_quest"
    /\ 1 \in DOMAIN active_quests
    /\ active_quests[1].current_scene = "2"

\* the items the content names
AllItems == {Vial, Shard, Fang}

\* the quantity of item i the recipe of item_name asks for, 0 when none
Required(item_name, i) ==
    IF \E k \in DOMAIN crafting_recipes[item_name].requirements :
           crafting_recipes[item_name].requirements[k].item = i
    THEN crafting_recipes[item_name].requirements[
             CHOOSE k \in DOMAIN crafting_recipes[item_name].requirements :
                 crafting_recipes[item_name].requirements[k].item = i].qty
    ELSE 0

\* the inventory table a complete craft of item_name makes of inv: every
\* input lower by what the recipe asks, the result higher by one, rows at 0
\* gone, a new result row of the recipe's rarity, every other row as it was
CraftedInventory(inv, user_id, item_name) ==
    LET after(i) == available_quantity(inv, user_id, i) - Required(item_name, i)
                        + (IF i = item_name THEN 1 ELSE 0)
        touched == {i \in AllItems : Required(item_name, i) > 0 \/ i = item_name}
        keys == ((DOMAIN inv) \ {InvKey(user_id, i) : i \in touched})
                    \cup {InvKey(user_id, i) : i \in {j \in touched : after(j) >= 1}}
    IN [k \in keys |->
           IF k[1] = user_id /\ k[2] \in touched
           THEN [rarity |-> IF k \in DOMAIN inv THEN inv[k].rarity
                            ELSE crafting_recipes[item_name].result_rarity,
                 quantity |-> after(k[2])]
           ELSE inv[k]]

\* C4: a craft_item call that a crash interrupts leaves, after the restart,
\* either the inventory it was called on or the inventory of the complete
\* craft, never inputs consumed without the result granted.
C4_InterruptedCraftIsAllOrNothing ==
    \A r \in DOMAIN crafting :
        crafting[r].pc = "crashed"
            => \/ user_inventory = crafting[r].pre
               \/ user_inventory = CraftedInventory(crafting[r].pre, crafting[r].user_id,
                                                    crafting[r].item_name)

\* the inventory inv covers the inputs of one craft of item_name and not two
CoversExactlyOne(inv, user_id, item_name) ==
    /\ item_name \in DOMAIN crafting_recipes
    /\ missing_items(inv, user_id, crafting_recipes[item_name].requirements) = << >>
    /\ missing_items(CraftedInventory(inv, user_id, item_name), user_id,
                     crafting_recipes[item_name].requirements) # << >>

\* C5: two overlapping craft_item calls of one player for one item, on an
\* inventory that covers one craft, end with one success and one refusal for
\* missing items, and no stored quantity goes below zero on the way.
C5_OverlappingCraftsSerialized ==
    /\ \A k \in DOMAIN user_inventory : user_inventory[k].quantity >= 0
    /\ \A r1 \in DOMAIN crafting, r2 \in DOMAIN crafting :
           (/\ r1 # r2
            /\ crafting[r1].pc = "returned" /\ crafting[r2].pc = "returned"
            /\ crafting[r1].overlapped /\ crafting[r2].overlapped
            /\ crafting[r1].first
            /\ crafting[r1].user_id = crafting[r2].user_id
            /\ crafting[r1].item_name = crafting[r2].item_name
            /\ can_craft_item(crafting[r1].pre, user_progress, crafting[r1].user_id,
                              crafting[r1].item_name).can_craft
            /\ CoversExactlyOne(crafting[r1].pre, crafting[r1].user_id, crafting[r1].item_name))
               => /\ crafting[r1].success # crafting[r2].success
                  /\ \A r \in {r1, r2} :
                         ~crafting[r].success => crafting[r].message.code = "missing_items"

Max0(n) == IF n < 0 THEN 0 ELSE n

DictGet(d, k) == IF k \in DOMAIN d THEN d[k] ELSE 0

\* the choice with this id of the scene the run of user_id is on
LocatedChoice(user_id, choice_id) ==
    LET choices == quests[active_quests[user_id].quest_name]
                       .scenes[scene_key(active_quests[user_id].current_scene)].choices
    IN choices[FindChoice(choices, choice_id)]

\* C6: after a successful make_choice whose choice names a next scene, the
\* stored inventory shows the items gained added and the items lost removed,
\* the run is on the named scene and the decision log holds the entry of
\* (player, quest, scene the choice was made in, choice).
C6_ChoiceOutcomeApplied ==
    [][\A user_id \in Users, choice_id \in ChoiceIds :
          (/\ ChoiceLocated(user_id, choice_id)
           /\ LocatedChoice(user_id, choice_id).next_scene \notin {"", "complete"}
           /\ make_choice(user_id, choice_id)
           /\ result'.success)
              => LET choice == LocatedChoice(user_id, choice_id)
                 IN /\ \A i \in AllItems :
                           available_quantity(user_inventory', user_id, i)
                               = Max0(available_quantity(user_inventory, user_id, i)
                                          + DictGet(choice.outcomes.items_gained, i)
                                          - DictGet(choice.outcomes.items_lost, i))
                    /\ user_id \in DOMAIN active_quests'
                    /\ active_quests'[user_id].current_scene = choice.next_scene
                    /\ <<user_id, active_quests[user_id].quest_name,
                         scene_key(active_quests[user_id].current_scene), choice_id>>
                           \in DOMAIN decision_logs']_vars

\* C7: can_craft_item is feasible exactly when the recipe exists, every
\* required input is held in the required quantity and every required quest
\* is completed.
C7_FeasibleIffAllRequirements ==
    \A user_id \in Users, item_name \in ItemNames :
        can_craft_item(user_inventory, user_progress, user_id, item_name).can_craft
            <=> /\ item_name \in DOMAIN crafting_recipes
                /\ \A i \in AllItems :
                       available_quantity(user_inventory, user_id, i) >= Required(item_name, i)
                /\ \A k \in DOMAIN crafting_recipes[item_name].quest_requirements :
                       quest_discovered(user_progress, user_id,
                                        crafting_recipes[item_name].quest_requirements[k])

\* C8: a craft_item call on a feasible craft succeeds and leaves the
\* inventory of the complete craft: inputs lower by the required quantities
\* (rows at 0 deleted), the result higher by one (a new row with the
\* recipe's rarity), every other row unchanged.
C8_FeasibleCraftConsumesAndProduces ==
    [][\A user_id \in Users, item_name \in ItemNames :
          (/\ can_craft_item(user_inventory, user_progress, user_id, item_name).can_craft
           /\ craft_item(user_id, item_name))
              => /\ result'.success
                 /\ user_inventory' = CraftedInventory(user_inventory, user_id, item_name)]_vars

\* a result row was created by a craft that used up its only input
C8_Witness ==
    /\ result.op = "craft_item" /\ result.success /\ result.message.name = Shard
    /\ InvKey(1, Shard) \in DOMAIN user_inventory
    /\ user_inventory[InvKey(1, Shard)] = [rarity |-> "rare", quantity |-> 1]
    /\ InvKey(1, Vial) \notin DOMAIN user_inventory

\* C9: a craft_item call on an infeasible craft fails with the message
\* can_craft_item gives and leaves the inventory as it was.
C9_InfeasibleCraftRefused ==
    [][\A user_id \in Users, item_name \in ItemNames :
          (/\ ~can_craft_item(user_inventory, user_progress, user_id, item_name).can_craft
           /\ craft_item(user_id, item_name))
              => /\ ~result'.success
                 /\ result'.message = can_craft_item(user_inventory, user_progress,
                                                     user_id, item_name).message
                 /\ user_inventory' = user_inventory]_vars

\* a craft was refused for an unmet quest while the inputs were there
C9_Witness ==
    /\ result.op = "craft_item" /\ ~result.success
    /\ result.message.code = "quest_required"
    /\ InvKey(1, Vial) \in DOMAIN user_inventory

\* C10: for every recipe the detail of can_craft_item has one entry per
\* required input, with required, available (0 when absent) and
\* sufficient = (available >= required), for the short inputs and the others.
C10_DetailCoversEveryInput ==
    \A user_id \in Users, item_name \in DOMAIN crafting_recipes :
        LET status == can_craft_item(user_inventory, user_progress, user_id, item_name).status
        IN /\ DOMAIN status = {i \in AllItems : Required(item_name, i) > 0}
           /\ \A i \in DOMAIN status :
                  /\ status[i].required = Required(item_name, i)
                  /\ status[i].available = available_quantity(user_inventory, user_id, i)
                  /\ status[i].sufficient = (status[i].available >= status[i].required)

\* a craft was refused for one short input while another input was held
C10_Witness ==
    /\ result.op = "craft_item" /\ ~result.success
    /\ result.message.code = "missing_items"
    /\ Len(result.message.missing) = 1
    /\ result.message.missing[1].item = Shard
    /\ available_quantity(user_inventory, 1, Vial) >= 1
    /\ available_quantity(user_inventory, 1, Shard) = 1

\* C11: a player with an active run of one quest can start a different quest
\* that exists: the start succeeds and the quest log then shows both quests
\* active for the player.
C11_DifferentQuestsRunTogether ==
    [][\A user_id \in Users, quest_name \in QuestNames :
          (/\ user_id \in DOMAIN active_quests
           /\ active_quests[user_id].quest_name # quest_name
           /\ has_quest_info(quest_name)
           /\ start_quest(user_id, quest_name))
              => /\ result'.success
                 /\ \A q \in {active_quests[user_id].quest_name, quest_name} :
                        /\ <<user_id, q>> \in DOMAIN user_quests'
                        /\ user_quests'[<<user_id, q>>].status = "active"]_vars

\* C12: start_quest for a quest name the content does not have fails with
\* the quest-not-found reason, never with the already-active one, and leaves
\* the runs and the quest log as they were.
C12_UnknownQuestRefusedAsNotFound ==
    [][\A user_id \in Users, quest_name \in QuestNames :
          (/\ ~has_quest_info(quest_name)
           /\ start_quest(user_id, quest_name))
              => /\ ~result'.success
                 /\ result'.message.code = "quest_not_found"
                 /\ result'.message.code # "already_on_quest"
                 /\ active_quests' = active_quests
                 /\ user_quests' = user_quests]_vars

\* C13: a successful start_quest leaves the player's run of the quest on
\* scene 1 with an empty state map, a quest-log row with status active and
\* the time of the call as its start date, and returns scene 1 of the quest
\* as processed for a fresh run.
C13_StartCreatesRunAtSceneOne ==
    [][\A user_id \in Users, quest_name \in QuestNames :
          (/\ start_quest(user_id, quest_name)
           /\ result'.success)
              => /\ user_id \in DOMAIN active_quests'
                 /\ active_quests'[user_id].quest_name = quest_name
                 /\ active_quests'[user_id].current_scene = "1"
                 /\ active_quests'[user_id].state = << >>
                 /\ <<user_id, quest_name>> \in DOMAIN user_quests'
                 /\ user_quests'[<<user_id, quest_name>>].status = "active"
                 /\ user_quests'[<<user_id, quest_name>>].started_date = clock
                 /\ user_quests'[<<user_id, quest_name>>].started_date # NoDate
                 /\ result'.payload =
                        process_dynamic_content(quests[quest_name].scenes[scene_key("1")],
                                                NewRun(quest_name))]_vars

\* a quest was started again, a second after its earlier run had made a choice
C13_Witness ==
    /\ result.op = "start_quest" /\ result.success
    /\ result.payload.kind = "scene"
    /\ 1 \in DOMAIN active_quests
    /\ active_quests[1].quest_name = QA
    /\ <<1, QA>> \in DOMAIN user_quests
    /\ user_quests[<<1, QA>>].started_date >= 1
    /\ <<1, QA, scene_key("1"), "3A">> \in DOMAIN decision_logs

\* C14: make_choice with a choice id the current scene does not have fails
\* with the choice-not-found reason, make_choice without a run fails with the
\* no-active-quest reason, the two differ, and in both cases the decision
\* log, the runs, the inventory and the quest log are left as they were.
C14_UnknownChoiceRefused ==
    [][\A user_id \in Users, choice_id \in ChoiceIds :
          /\ (/\ user_id \notin DOMAIN active_quests
              /\ make_choice(user_id, choice_id))
                 => /\ ~result'.success
                    /\ result'.message.code = "no_active_quest"
                    /\ UNCHANGED <<active_quests, tables>>
          /\ (/\ user_id \in DOMAIN active_quests
              /\ has_quest_info(active_quests[user_id].quest_name)
              /\ scene_key(active_quests[user_id].current_scene)
                     \in DOMAIN quests[active_quests[user_id].quest_name].scenes
              /\ ~ChoiceLocated(user_id, choice_id)
              /\ make_choice(user_id, choice_id))
                 => /\ ~result'.success
                    /\ result'.message.code = "choice_not_found"
                    /\ result'.message.code # "no_active_quest"
                    /\ UNCHANGED <<active_quests, tables>>]_vars

\* a choice of another scene was refused on scene 2 of a run with state
C14_Witness ==
    /\ result.op = "make_choice" /\ ~result.success
    /\ result.message.code = "choice_not_found"
    /\ result.message.name = "3A"
    /\ 1 \in DOMAIN active_quests
    /\ active_quests[1].current_scene = "2"
    /\ active_quests[1].state # << >>

\* C15: a make_choice call that finds the run and locates the choice records
\* the decision (player, quest, scene the run is on, choice) while the runs,
\* the inventory and the quest log are still as the call found them; the
\* later step of the call finds the entry in the log and leaves it there,
\* whether it ends in a scene, a completion or a failure.
C15_DecisionLoggedBeforeChanges ==
    [][\A user_id \in Users :
          /\ \A choice_id \in ChoiceIds :
                 (/\ ChoiceLocated(user_id, choice_id)
                  /\ ChoiceCall(user_id, choice_id))
                     => /\ <<user_id, active_quests[user_id].quest_name,
                             scene_key(active_quests[user_id].current_scene), choice_id>>
                               \in DOMAIN decision_logs'
                        /\ UNCHANGED <<active_quests, user_inventory, user_quests>>
          /\ (/\ user_id \in DOMAIN choosing
              /\ ChoiceResolve(user_id))
                 => /\ choosing[user_id].key \in DOMAIN decision_logs
                    /\ choosing[user_id].key \in DOMAIN decision_logs'
          /\ (/\ user_id \notin DOMAIN choosing
              /\ \A choice_id \in ChoiceIds :
                     ~(ChoiceLocated(user_id, choice_id) /\ ChoiceCall(user_id, choice_id))
              /\ user_id \in DOMAIN active_quests
              /\ user_id \in DOMAIN active_quests')
                 => active_quests'[user_id] = active_quests[user_id]]_vars

\* a choice without a next scene ended in a failure and is in the log
C15_Witness ==
    /\ choosing = EmptyDict
    /\ result.op = "make_choice" /\ ~result.success
    /\ result.message.code = "no_next_scene"
    /\ <<1, QB, scene_key("1"), "1B">> \in DOMAIN decision_logs

\* C16: a make_choice whose choice has next_scene "complete" leaves the
\* quest-log row of the run completed with the time of the call as its
\* completion date, a discovery of (player, "quests", quest name), and no
\* active run for the player.
C16_CompleteSentinelCompletesRun ==
    [][\A user_id \in Users, choice_id \in ChoiceIds :
          (/\ ChoiceLocated(user_id, choice_id)
           /\ LocatedChoice(user_id, choice_id).next_scene = "complete"
           /\ make_choice(user_id, choice_id))
              => LET quest_name == active_quests[user_id].quest_name
                 IN /\ <<user_id, quest_name>> \in DOMAIN user_quests'
                    /\ user_quests'[<<user_id, quest_name>>].status = "completed"
                    /\ user_quests'[<<user_id, quest_name>>].completed_date = clock
                    /\ user_quests'[<<user_id, quest_name>>].completed_date # NoDate
                    /\ quest_discovered(user_progress', user_id, quest_name)
                    /\ user_id \notin DOMAIN active_quests']_vars

\* a run started at second 0 was completed at a later second
C16_Witness ==
    /\ result.op = "make_choice" /\ result.success
    /\ result.message.code = "quest_completed"
    /\ result.message.name = QA
    /\ user_quests[<<1, QA>>].status = "completed"
    /\ user_quests[<<1, QA>>].started_date = 0
    /\ user_quests[<<1, QA>>].completed_date >= 1
    /\ 1 \notin DOMAIN active_quests

\* the place of a kind of reward in the order items, experience, lore
Rank(kind) == CASE kind = "item" -> 1 [] kind = "xp" -> 2 [] kind = "lore" -> 3

\* C17: the completion data lists every reward of the quest, the items
\* first, then the experience, then the lore discoveries.
C17_RewardsListedItemsXpLore ==
    result.payload.kind = "completion"
        => LET lines == result.payload.lines
               rewards == quests[result.message.name].rewards
           IN /\ \A i \in DOMAIN rewards.items :
                     \E k \in DOMAIN lines : lines[k] = Line("item", i, rewards.items[i])
              /\ \A d \in RewardDiscoveries(rewards.discoveries) :
                     \E k \in DOMAIN lines : lines[k] = Line("lore", d[2], 0)
              /\ \E k \in DOMAIN lines : lines[k] = Line("xp", "", rewards.xp)
              /\ \A j, k \in DOMAIN lines :
                     j < k => Rank(lines[j].kind) <= Rank(lines[k].kind)

\* C18: on completion every reward item is added to the stored inventory:
\* the quantity of an existing row grows by the reward quantity, a missing
\* row is created with the reward quantity, every other row stays as it was;
\* every lore entry of the rewards is a discovery afterwards.
C18_RewardsAddedByIncrement ==
    [][\A user_id \in Users, choice_id \in ChoiceIds :
          (/\ ChoiceLocated(user_id, choice_id)
           /\ LocatedChoice(user_id, choice_id).next_scene = "complete"
           /\ make_choice(user_id, choice_id))
              => LET rewards == quests[active_quests[user_id].quest_name].rewards
                 IN /\ DOMAIN user_inventory' =
                           (DOMAIN user_inventory)
                               \cup {InvKey(user_id, i) : i \in DOMAIN rewards.items}
                    /\ \A i \in DOMAIN rewards.items :
                           user_inventory'[InvKey(user_id, i)].quantity
                               = available_quantity(user_inventory, user_id, i)
                                     + rewards.items[i]
                    /\ \A k \in DOMAIN user_inventory :
                           /\ user_inventory'[k].rarity = user_inventory[k].rarity
                           /\ k \notin {InvKey(user_id, i) : i \in DOMAIN rewards.items}
                                  => user_inventory'[k] = user_inventory[k]
                    /\ \A d \in RewardDiscoveries(rewards.discoveries) :
                           /\ <<user_id, d[1], d[2]>> \in DOMAIN user_progress'
                           /\ user_progress'[<<user_id, d[1], d[2]>>].discovered]_vars

\* a second completion has made the rows of the first one grow
C18_Witness ==
    /\ result.op = "make_choice" /\ result.success
    /\ result.message.code = "quest_completed"
    /\ result.message.name = QA
    /\ available_quantity(user_inventory, 1, Vial) = 2
    /\ available_quantity(user_inventory, 1, Shard) = 2

\* C19: abandon_quest for a player with a run leaves the quest-log row of
\* the run abandoned with the time of the call in one of its date columns
\* and removes the run; for a player without a run it fails and changes
\* nothing.
C19_AbandonMarksRowWithTime ==
    [][\A user_id \in Users :
          /\ (/\ user_id \in DOMAIN active_quests
              /\ abandon_quest(user_id))
                 => LET k == <<user_id, active_quests[user_id].quest_name>>
                    IN /\ result'.success
                       /\ k \in DOMAIN user_quests'
                       /\ user_quests'[k].status = "abandoned"
                       /\ \/ user_quests'[k].started_date = clock
                          \/ user_quests'[k].completed_date = clock
                       /\ user_id \notin DOMAIN active_quests'
          /\ (/\ user_id \notin DOMAIN active_quests
              /\ abandon_quest(user_id))
                 => /\ ~result'.success
                    /\ UNCHANGED <<active_quests, tables>>]_vars

\* what the engine holds of an item for a player: the stored row plus what
\* the player's run has gained
Holdings(aq, inv, user_id, item_name) ==
    available_quantity(inv, user_id, item_name)
        + (IF user_id \in DOMAIN aq THEN DictGet(aq[user_id].inventory, item_name) ELSE 0)

\* C20: abandon_quest takes nothing back: what the player holds of every
\* item, the gains of the run's choices included, is the same after the
\* abandon, and every row of the decision log stays as it was.
C20_AbandonKeepsChoiceEffects ==
    [][\A user_id \in Users :
          (/\ user_id \in DOMAIN active_quests
           /\ abandon_quest(user_id))
              => /\ \A i \in AllItems :
                        Holdings(active_quests', user_inventory', user_id, i)
                            = Holdings(active_quests, user_inventory, user_id, i)
                 /\ \A k \in DOMAIN decision_logs :
                        /\ k \in DOMAIN decision_logs'
                        /\ decision_logs'[k] = decision_logs[k]]_vars

\* the scene the run of user_id is on, in the run map aq
SceneOf(aq, user_id) ==
    quests[aq[user_id].quest_name].scenes[scene_key(aq[user_id].current_scene)]

\* the run of user_id in aq is on a scene its quest has
OnScene(aq, user_id) ==
    /\ user_id \in DOMAIN aq
    /\ has_quest_info(aq[user_id].quest_name)
    /\ scene_key(aq[user_id].current_scene) \in DOMAIN quests[aq[user_id].quest_name].scenes

\* a narrative with every placeholder of a state variable replaced by the
\* value of that variable, and every other piece as it is
Substituted(narrative, state) ==
    [i \in DOMAIN narrative |->
        IF \E j \in DOMAIN state : narrative[i] = placeholder(state[j][1])
        THEN state[CHOOSE j \in DOMAIN state : narrative[i] = placeholder(state[j][1])][2]
        ELSE narrative[i]]

\* C21: for a run on a scene, get_current_quest succeeds and returns the
\* narrative of the scene with each placeholder of a state variable of the
\* run replaced by the value of that variable and nothing else changed:
\* placeholders of no variable stay as they are.
C21_PlaceholdersReplacedOnce ==
    [][\A user_id \in Users :
          (/\ OnScene(active_quests, user_id)
           /\ get_current_quest(user_id))
              => /\ result'.success
                 /\ result'.payload.narrative =
                        Substituted(SceneOf(active_quests, user_id).narrative,
                                    active_quests[user_id].state)]_vars

\* the choices of a scene whose conditions all equal the values the state
\* holds, in the order of the scene
Selectable(choices, state) ==
    SelectSeq(choices,
              LAMBDA c : \A k \in DOMAIN c.conditions :
                             \E i \in DOMAIN state : state[i] = <<k, c.conditions[k]>>)

\* C22: every scene a call returns lists the choices of the scene, in the
\* order of the scene, whose conditions all equal the values of the run's
\* state variables, the choices without conditions among them; and after an
\* applied choice each variable its outcome assigns has the assigned value,
\* whatever it held before.
C22_ChoicesFilteredByState ==
    [][\A user_id \in Users :
          /\ (/\ result' # result
              /\ result'.payload.kind = "scene"
              /\ OnScene(active_quests', user_id))
                 => result'.payload.choices =
                        Selectable(SceneOf(active_quests', user_id).choices,
                                   active_quests'[user_id].state)
          /\ \A choice_id \in RankChoiceIds \cup ChoiceIds :
                 (/\ ChoiceLocated(user_id, choice_id)
                  /\ make_choice(user_id, choice_id)
                  /\ user_id \in DOMAIN active_quests')
                     => LET changes == LocatedChoice(user_id, choice_id).outcomes.state_changes
                        IN \A n \in DOMAIN changes :
                               \E i \in DOMAIN active_quests'[user_id].state :
                                   active_quests'[user_id].state[i] = changes[n]]_vars

\* the conditional choice is listed: rank is "3" again after it had been "4"
C22_Witness ==
    /\ result.payload.kind = "scene"
    /\ \E i \in DOMAIN result.payload.choices : result.payload.choices[i].id = "K1"
    /\ 1 \in DOMAIN active_quests
    /\ \E i \in DOMAIN active_quests[1].state : active_quests[1].state[i] = <<"rank", "3">>
    /\ <<1, QC, scene_key("1"), "R2">> \in DOMAIN decision_logs

\* C23: get_available_quests lists a quest exactly when the player has no
\* active and no completed record of it (no quest of the content names a
\* prerequisite).
C23_AvailableExcludesActiveAndCompleted ==
    result.op = "get_available_quests"
        => \A user_id \in Users, quest_name \in DOMAIN quests :
               (\E e \in result.quests : e.name = quest_name)
                   <=> ~(/\ <<user_id, quest_name>> \in DOMAIN user_quests
                         /\ user_quests[<<user_id, quest_name>>].status
                                \in {"active", "completed"})

\* the scene after scene n
NextSequential(current_scene) ==
    CASE current_scene = "1" -> "2" [] current_scene = "2" -> "3" [] OTHER -> "4"

\* C27: on a scene without choices make_choice with the continue choice
\* succeeds and moves the run to the next scene in sequence.
C27_ContinueSceneAdvances ==
    [][\A user_id \in Users :
          (/\ OnScene(active_quests, user_id)
           /\ SceneOf(active_quests, user_id).choices = << >>
           /\ make_choice(user_id, "continue"))
              => /\ result'.success
                 /\ user_id \in DOMAIN active_quests'
                 /\ active_quests'[user_id].current_scene
                        = NextSequential(active_quests[user_id].current_scene)]_vars

\* C30: a make_choice that returns a failure leaves the run (its state
\* variables, its inventory deltas, its current scene) and the stored
\* inventory as they were.
C30_FailedChoiceChangesNothing ==
    [][\A user_id \in Users, choice_id \in RankChoiceIds :
          (/\ make_choice(user_id, choice_id)
           /\ ~result'.success)
              => /\ active_quests' = active_quests
                 /\ user_inventory' = user_inventory]_vars

\* C24: recording a discovery that is already recorded is a no-op: every
\* discovery row, once stored, stays as it is, its discovery date included.
C24_DiscoveryRecordedOnce ==
    [][\A k \in DOMAIN user_progress :
          /\ k \in DOMAIN user_progress'
          /\ user_progress'[k] = user_progress[k]]_vars

(***************************************************************************)
(* Two players calling the engine and the crafting resolver in any order.  *)
(***************************************************************************)
Players == {1, 2}
PlayerQuests == {QA, QB}
PlayerChoices == {"3A", "2A", "1A"}
PlayerItems == {Shard}

\* one call of the player user_id
Operation(user_id) ==
    \/ \E quest_name \in PlayerQuests : start_quest(user_id, quest_name)
    \/ \E choice_id \in PlayerChoices : make_choice(user_id, choice_id)
    \/ abandon_quest(user_id)
    \/ \E item_name \in PlayerItems : craft_item(user_id, item_name)

NextPlayers ==
    \/ \E user_id \in Players, quest_name \in PlayerQuests : start_quest(user_id, quest_name)
    \/ \E user_id \in Players, choice_id \in PlayerChoices : make_choice(user_id, choice_id)
    \/ \E user_id \in Players : abandon_quest(user_id)
    \/ \E user_id \in Players, item_name \in PlayerItems : craft_item(user_id, item_name)

SpecPlayers == Init /\ [][NextPlayers]_vars

\* the rows of a table that belong to user_id
RowsOf(table, user_id) ==
    [k \in {k \in DOMAIN table : k[1] = user_id} |-> table[k]]

\* all the engine holds for user_id: the run with its state variables and
\* item deltas, the inventory, the decision log, the quest log, the
\* discoveries
Holding(aq, inv, log, ql, progress, user_id) ==
    [run |-> IF user_id \in DOMAIN aq THEN << aq[user_id] >> ELSE << >>,
     inventory |-> RowsOf(inv, user_id),
     decisions |-> RowsOf(log, user_id),
     quest_log |-> RowsOf(ql, user_id),
     discoveries |-> RowsOf(progress, user_id)]

\* the step leaves all that the engine holds for user_id as it was
Untouched(user_id) ==
    \/ UNCHANGED <<active_quests, user_inventory, decision_logs, user_quests,
                   user_progress>>
    \/ Holding(active_quests', user_inventory', decision_logs', user_quests',
               user_progress', user_id)
       = Holding(active_quests, user_inventory, decision_logs, user_quests,
                 user_progress, user_id)

\* C25: a call of one player leaves the run, the state variables, the
\* inventory, the decision log, the quest log and the discoveries of every
\* other player unchanged, in every order of the two players' calls: a step
\* that changes what is held for b is not a call of another player a.
C25_PlayersDoNotInterfere ==
    [][\A b \in Players : \A a \in Players \ {b} :
          ~Untouched(b) => ~Operation(a)]_vars

\* player 2 is on a quest and player 1 has just crafted, both holding rows
\* in every table
C25_Witness ==
    /\ result.op = "craft_item" /\ result.success
    /\ InvKey(1, Shard) \in DOMAIN user_inventory
    /\ 2 \in DOMAIN active_quests
    /\ active_quests[2].current_scene = "2"
    /\ \A user_id \in Players :
           /\ RowsOf(user_inventory, user_id) # << >>
           /\ RowsOf(decision_logs, user_id) # << >>
           /\ RowsOf(user_quests, user_id) # << >>
           /\ RowsOf(user_progress, user_id) # << >>

(***************************************************************************)
(* The calls while the store is down: execute_query logs the error and     *)
(* returns [] for every statement, and no statement changes a table.       *)
(***************************************************************************)
\* an exception that leaves the call and reaches the caller
Raised(op, error) ==
    ResultWith(op, FALSE, Msg(error, "", NoMissing),
               Payload("exception", << >>, << >>, << >>))

\* QuestManager.start_quest with the store down: the run is stored, then
\* execute_query("SELECT datetime('now') as time")[0] has no element 0
start_quest_store_down(user_id, quest_name) ==
    IF already_on_quest(user_id)
    THEN /\ result' = Result("start_quest", FALSE,
                             Msg("already_on_quest", "", NoMissing))
         /\ UNCHANGED <<active_quests, tables, clock, crafting, choosing>>
    ELSE IF ~has_quest_info(quest_name)
    THEN /\ result' = Result("start_quest", FALSE,
                             Msg("quest_not_found", quest_name, NoMissing))
         /\ UNCHANGED <<active_quests, tables, clock, crafting, choosing>>
    ELSE /\ active_quests' = Put(active_quests, user_id, NewRun(quest_name))
         /\ result' = Raised("start_quest", "IndexError")
         /\ UNCHANGED <<tables, clock, crafting, choosing>>

\* QuestManager.make_choice with the store down: the decision and the scene
\* pointer are not written, the run is changed as ever, and _complete_quest
\* stops at execute_query("SELECT datetime('now') as time")[0]
make_choice_store_down(user_id, choice_id) ==
    IF user_id \notin DOMAIN active_quests
    THEN /\ result' = Result("make_choice", FALSE,
                             Msg("no_active_quest", "", NoMissing))
         /\ UNCHANGED <<active_quests, tables, clock, crafting, choosing>>
    ELSE
    LET quest_state == active_quests[user_id]
        quest_name == quest_state.quest_name
        current_scene == quest_state.current_scene
    IN
    IF ~has_quest_info(quest_name)
    THEN /\ result' = Result("make_choice", FALSE,
                             Msg("quest_not_found", quest_name, NoMissing))
         /\ UNCHANGED <<active_quests, tables, clock, crafting, choosing>>
    ELSE IF scene_key(current_scene) \notin DOMAIN quests[quest_name].scenes
    THEN /\ result' = Result("make_choice", FALSE,
                             Msg("scene_not_found", current_scene, NoMissing))
         /\ UNCHANGED <<active_quests, tables, clock, crafting, choosing>>
    ELSE IF FindChoice(quests[quest_name].scenes[scene_key(current_scene)].choices,
                       choice_id) = 0
    THEN /\ result' = Result("make_choice", FALSE, choice_not_found(choice_id))
         /\ UNCHANGED <<active_quests, tables, clock, crafting, choosing>>
    ELSE
    LET choices == quests[quest_name].scenes[scene_key(current_scene)].choices
        chosen_choice == choices[FindChoice(choices, choice_id)]
        next_scene == chosen_choice.next_scene
        after_outcomes == ApplyOutcomes(quest_state, chosen_choice.outcomes)
        moved == [after_outcomes EXCEPT !.current_scene = next_scene]
    IN
    /\ \A i \in DOMAIN after_outcomes.inventory : after_outcomes.inventory[i] <= MaxQty
    /\ IF next_scene = ""
       THEN /\ active_quests' = Put(active_quests, user_id, after_outcomes)
            /\ result' = Result("make_choice", FALSE,
                                Msg("no_next_scene", "", NoMissing))
       ELSE IF next_scene = "complete"
       THEN /\ active_quests' = Put(active_quests, user_id, moved)
            /\ result' = Raised("make_choice", "IndexError")
       ELSE /\ active_quests' = Put(active_quests, user_id, moved)
            /\ LET scene == get_scene_data(active_quests', user_id)
               IN result' = ResultWith("make_choice", scene.success, scene.message,
                                       scene.payload)
    /\ UNCHANGED <<tables, clock, crafting, choosing>>

\* QuestManager.abandon_quest with the store down: the UPDATE is lost, the
\* run is deleted and the call reports the abandon
abandon_quest_store_down(user_id) ==
    IF user_id \notin DOMAIN active_quests
    THEN /\ result' = Result("abandon_quest", FALSE,
                             Msg("no_active_quest", "", NoMissing))
         /\ UNCHANGED <<active_quests, tables, clock, crafting, choosing>>
    ELSE /\ active_quests' = Del(active_quests, user_id)
         /\ result' = Result("abandon_quest", TRUE,
                             Msg("abandoned", active_quests[user_id].quest_name, NoMissing))
         /\ UNCHANGED <<tables, clock, crafting, choosing>>

\* Database.craft_item with the store down: can_craft_item reads no recipe
craft_item_store_down(user_id, item_name) ==
    /\ result' = Result("craft_item", FALSE, Msg("no_recipe", item_name, NoMissing))
    /\ UNCHANGED <<active_quests, tables, clock, crafting, choosing>>

\* the arguments of the calls made while the store goes down and comes back
OutageQuests == {QA, QB}
OutageChoices == {"3A", "2A", "1A", "1B"}
OutageItems == {Shard}

\* one call made while the store is down
StoreDownCall(user_id) ==
    \/ \E quest_name \in OutageQuests : start_quest_store_down(user_id, quest_name)
    \/ \E choice_id \in OutageChoices : make_choice_store_down(user_id, choice_id)
    \/ abandon_quest_store_down(user_id)
    \/ \E item_name \in OutageItems : craft_item_store_down(user_id, item_name)

NextOutage ==
    \/ \E user_id \in Users, quest_name \in OutageQuests : start_quest(user_id, quest_name)
    \/ \E user_id \in Users, choice_id \in OutageChoices : make_choice(user_id, choice_id)
    \/ \E user_id \in Users : abandon_quest(user_id)
    \/ \E user_id \in Users, item_name \in OutageItems : craft_item(user_id, item_name)
    \/ \E user_id \in Users, quest_name \in OutageQuests :
           start_quest_store_down(user_id, quest_name)
    \/ \E user_id \in Users, choice_id \in OutageChoices :
           make_choice_store_down(user_id, choice_id)
    \/ \E user_id \in Users : abandon_quest_store_down(user_id)
    \/ \E user_id \in Users, item_name \in OutageItems :
           craft_item_store_down(user_id, item_name)

SpecOutage == Init /\ [][NextOutage]_vars

\* C26: a start, choice, abandon or craft during which the store fails
\* raises nothing into the caller, returns a failure, and leaves the run,
\* the inventory, the decision log and the quest log as they were.
C26_StoreFailureChangesNothing ==
    [][\A user_id \in Users :
          StoreDownCall(user_id)
              => /\ ~result'.success
                 /\ result'.payload.kind # "exception"
                 /\ active_quests' = active_quests
                 /\ tables' = tables]_vars

(***************************************************************************)
(* Character interaction.                                                  *)
(***************************************************************************)
\* the characters lore_manager.get_character knows
characters == {"Elder Maren", "Kael the Ashen"}

\* the names the callers ask for
CharacterNames == characters \cup {"Nobody"}

\* "Check if relationship exists", never finding one
existing_relationship_unchecked(relationships, user_id, character_name) == FALSE

\* "Check if relationship exists" of interact_with_character
existing_relationship(relationships, user_id, character_name) ==
    <<user_id, character_name>> \in DOMAIN relationships

\* QuestManager.interact_with_character
interact_with_character(user_id, character_name) ==
    IF character_name \notin characters
    THEN /\ result' = Result("interact_with_character", FALSE,
                             Msg("character_not_found", character_name, NoMissing))
         /\ UNCHANGED <<active_quests, tables, clock, crafting, choosing>>
    ELSE /\ user_relationships' =
                IF existing_relationship(user_relationships, user_id, character_name)
                THEN [user_relationships EXCEPT
                          ![<<user_id, character_name>>].last_interaction = clock]
                ELSE Put(user_relationships, <<user_id, character_name>>,
                         [affinity |-> 0, first_met |-> clock, last_interaction |-> clock])
         /\ result' = Result("interact_with_character", TRUE,
                             Msg("response", character_name, NoMissing))
         /\ UNCHANGED <<active_quests, user_inventory, user_quests, user_progress,
                        decision_logs, clock, crafting, choosing>>

NextMeet ==
    \/ Tick
    \/ \E user_id \in Players, character_name \in CharacterNames :
           interact_with_character(user_id, character_name)

SpecMeet == Init /\ [][NextMeet]_vars

\* C28: the first contact of a player with a character stores the row with
\* the affinity counter and the time of the contact, every later contact
\* changes the last-interaction time of that row and nothing else, and no
\* step removes a row, lowers an affinity or changes a first-met time.
C28_InteractionKeepsAffinity ==
    [][/\ \A k \in DOMAIN user_relationships :
              /\ k \in DOMAIN user_relationships'
              /\ user_relationships'[k].affinity >= user_relationships[k].affinity
              /\ user_relationships'[k].first_met = user_relationships[k].first_met
       /\ \A user_id \in Players, character_name \in characters :
              interact_with_character(user_id, character_name)
                  => LET k == <<user_id, character_name>>
                     IN /\ k \in DOMAIN user_relationships'
                        /\ user_relationships'[k].last_interaction = clock
                        /\ k \notin DOMAIN user_relationships
                               => (/\ user_relationships'[k].affinity = 0
                                   /\ user_relationships'[k].first_met = clock)
                        /\ \A other \in DOMAIN user_relationships' \ {k} :
                               /\ other \in DOMAIN user_relationships
                               /\ user_relationships'[other] = user_relationships[other]]_vars

\* a later contact: the row of player 1 and a character was updated after
\* the second they first met, beside a row of another player
C28_Witness ==
    /\ result.op = "interact_with_character" /\ result.success
    /\ \E c \in characters :
           /\ <<1, c>> \in DOMAIN user_relationships
           /\ user_relationships[<<1, c>>].first_met = 0
           /\ user_relationships[<<1, c>>].last_interaction = clock
           /\ clock > 0
           /\ <<2, c>> \in DOMAIN user_relationships

(***************************************************************************)
(* Callback data.  A string is its origin and its length, an integer its   *)
(* number of digits; a dict is the sequence of its items.                  *)
(***************************************************************************)
MAX_CALLBACK_DATA_LENGTH == 64

Str(origin, length) == [kind |-> "str", origin |-> origin, length |-> length]
Number(origin, digits) == [kind |-> "int", origin |-> origin, length |-> digits]

\* len(json.dumps(value)) of a string of plain characters or an integer
json_value_length(value) ==
    IF value.kind = "str" THEN value.length + 2 ELSE value.length

\* the lengths of '"key": value' over the items
RECURSIVE json_items_length(_)
json_items_length(data) ==
    IF data = << >> THEN 0
    ELSE Len(Head(data)[1]) + 4 + json_value_length(Head(data)[2])
             + json_items_length(Tail(data))

\* len(json.dumps(data)): braces, items, ", " between the items
json_dumps_length(data) ==
    IF data = << >> THEN 2
    ELSE 2 + json_items_length(data) + 2 * (Len(data) - 1)

\* the number of digits of str(hash(name) % 10000)
ShortIdDigits == 1..4

\* a returned string, as the dict it encodes
Returned(data) == [raised |-> "", data |-> data]

\* an exception leaving create_callback_data
Failed(error) == [raised |-> error, data |-> << >>]

\* the outcomes of create_callback_data(action, **kwargs); more than one
\* where the hash of the name decides
callback_data(action, kwargs) ==
    LET action_item == <<"action", action>>
        data == << action_item >> \o kwargs
        minimal == << action_item >>
    IN
    IF json_dumps_length(data) <= MAX_CALLBACK_DATA_LENGTH
    THEN { Returned(data) }
    ELSE IF ~(HasKey(kwargs, "name") /\ ItemValue(kwargs, "name").length > 10)
    THEN { Returned(minimal) }
    ELSE IF HasKey(kwargs, "id")
    THEN LET by_id == << action_item, <<"id", ItemValue(kwargs, "id")>> >>
         IN IF json_dumps_length(by_id) <= MAX_CALLBACK_DATA_LENGTH
            THEN { Returned(by_id) }
            ELSE { Failed("UnboundLocalError") }
    ELSE { LET short_id == Str("hash", digits)
               shorter == << action_item, <<"short_id", short_id>>,
                             <<"name_prefix", Str("name[:5]", 5)>> >>
               by_short_id == << action_item, <<"id", short_id>> >>
           IN IF json_dumps_length(shorter) <= MAX_CALLBACK_DATA_LENGTH
              THEN Returned(shorter)
              ELSE IF json_dumps_length(by_short_id) <= MAX_CALLBACK_DATA_LENGTH
              THEN Returned(by_short_id)
              ELSE Returned(minimal)
         : digits \in ShortIdDigits }

\* callback_utils.create_callback_data
create_callback_data(action, kwargs) ==
    /\ \E outcome \in callback_data(action, kwargs) :
           result' = [op |-> "create_callback_data",
                      success |-> outcome.raised = "",
                      message |-> Msg(outcome.raised, "", NoMissing),
                      payload |-> IF outcome.raised = "" THEN NoPayload
                                  ELSE Payload("exception", << >>, << >>, << >>),
                      action |-> action,
                      kwargs |-> kwargs,
                      data |-> outcome.data]
    /\ UNCHANGED <<active_quests, tables, clock, crafting, choosing>>

\* the arguments of the calls: action names, entity names and ids of
\* several lengths, a name and an id given or not
ActionLengths == {1, 6, 7, 11, 36, 37, 41, 42, 50, 51}
NameLengths == {4, 10, 11, 40, 100}
IdDigits == {1, 3}

Kwargs ==
    { ids \o names :
        ids \in {<< >>} \cup {<< <<"id", Number("id", n)>> >> : n \in IdDigits},
        names \in {<< >>} \cup {<< <<"name", Str("name", n)>> >> : n \in NameLengths} }

NextCallback ==
    \E length \in ActionLengths, kwargs \in Kwargs :
        create_callback_data(Str("action", length), kwargs)

SpecCallback == Init /\ [][NextCallback]_vars

\* C29: create_callback_data returns, for every action and arguments, a
\* JSON object whose "action" is the given action and whose length is at
\* most 64; when the full data is that short, the object holds every
\* argument as given.
C29_CallbackDataFits ==
    result.op = "create_callback_data"
        => /\ result.success
           /\ HasKey(result.data, "action")
           /\ ItemValue(result.data, "action") = result.action
           /\ json_dumps_length(result.data) <= MAX_CALLBACK_DATA_LENGTH
           /\ json_dumps_length(<< <<"action", result.action>> >> \o result.kwargs)
                  <= MAX_CALLBACK_DATA_LENGTH
                  => result.data = << <<"action", result.action>> >> \o result.kwargs

(***************************************************************************)
(* The process stops and starts again.                                     *)
(***************************************************************************)
\* QuestManager.__init__ of the new process: active_quests = {}, the tables
\* as the old process left them
Restart ==
    /\ active_quests' = EmptyDict
    /\ result' = Result("init", TRUE, Msg("", "", NoMissing))
    /\ UNCHANGED <<tables, clock, crafting, choosing>>

\* the choices made around a restart
RestartChoiceIds == {"R1", "R2", "K1", "T1"}

NextRestart ==
    \/ Restart
    \/ \E user_id \in Users : start_quest(user_id, QC)
    \/ \E user_id \in Users, choice_id \in RestartChoiceIds : make_choice(user_id, choice_id)
    \/ \E user_id \in Users : abandon_quest(user_id)
    \/ \E user_id \in Users : get_current_quest(user_id)

SpecRestart == Init /\ [][NextRestart]_vars

\* C31: a restart keeps every run with its scene and its state variables;
\* so while the quest log holds an active row of a player and a quest,
\* get_current_quest returns the scene of that run and start_quest of that
\* quest fails.
C31_RunSurvivesRestart ==
    [][/\ Restart => active_quests' = active_quests
       /\ \A user_id \in Users, quest_name \in DOMAIN quests :
              (/\ <<user_id, quest_name>> \in DOMAIN user_quests
               /\ user_quests[<<user_id, quest_name>>].status = "active")
                  => /\ get_current_quest(user_id) => result'.success
                     /\ start_quest(user_id, quest_name) => ~result'.success]_vars

\* C32: make_choice with a choice of the current scene whose conditions the
\* state variables of the run do not satisfy is rejected and changes
\* nothing; so every applied choice was in the list rendered for the scene.
C32_OnlySelectableChoicesApplied ==
    [][\A user_id \in Users, choice_id \in RankChoiceIds :
          (/\ ChoiceLocated(user_id, choice_id)
           /\ LocatedChoice(user_id, choice_id)
                  \notin { Selectable(SceneOf(active_quests, user_id).choices,
                                      active_quests[user_id].state)[i] :
                           i \in DOMAIN Selectable(SceneOf(active_quests, user_id).choices,
                                                   active_quests[user_id].state) }
           /\ make_choice(user_id, choice_id))
              => /\ ~result'.success
                 /\ UNCHANGED <<active_quests, tables>>]_vars

(***************************************************************************)
(* Quests whose definitions lead nowhere: no first scene, a choice with no *)
(* next scene, a next scene that is missing, a scene without choices.      *)
(***************************************************************************)
RoadQuests == {QB, QC, QD, "Lost Quest"}
RoadChoiceIds == {"T1", "R1", "K1", "X9", "1A", "1B"}

NextRoad ==
    \/ \E user_id \in Users, quest_name \in RoadQuests : start_quest(user_id, quest_name)
    \/ \E user_id \in Users, choice_id \in RoadChoiceIds : make_choice(user_id, choice_id)
    \/ \E user_id \in Users : abandon_quest(user_id)
    \/ \E user_id \in Users : get_current_quest(user_id)

SpecRoad == Init /\ [][NextRoad]_vars

\* C33: a start_quest that returns a failure creates no run and writes no
\* quest-log row: the runs and the quest log are as before the call.
C33_FailedStartLeavesNoRun ==
    [][\A user_id \in Users, quest_name \in RoadQuests :
          (/\ start_quest(user_id, quest_name)
           /\ ~result'.success)
              => /\ active_quests' = active_quests
                 /\ user_quests' = user_quests]_vars

\* C34: the current scene of every run is a scene of the run's quest, so
\* _get_scene_data of a run never answers scene-not-found.
C34_RunIsOnExistingScene ==
    \A user_id \in DOMAIN active_quests :
        /\ OnScene(active_quests, user_id)
        /\ get_scene_data(active_quests, user_id).message.code # "scene_not_found"

\* user_id has completed quest_name: _complete_quest recorded it
HasCompleted(progress, user_id, quest_name) ==
    <<user_id, "quests", quest_name>> \in DOMAIN progress

\* C35: once a player has completed a quest, the quest-log row of the
\* player and the quest stays completed, and no later completion of that
\* quest by the player adds to the stored inventory.
C35_RewardsGrantedOnce ==
    [][\A user_id \in Users, quest_name \in DOMAIN quests :
          HasCompleted(user_progress, user_id, quest_name)
              => /\ <<user_id, quest_name>> \in DOMAIN user_quests'
                 /\ user_quests'[<<user_id, quest_name>>].status = "completed"
                 /\ (/\ user_id \in DOMAIN active_quests
                     /\ active_quests[user_id].quest_name = quest_name
                     /\ result'.payload.kind = "completion")
                        => user_inventory' = user_inventory]_vars

\* C36: a completion commits the run's pending item deltas: after the
\* completing make_choice the stored quantity of every item is what it was
\* plus the quest's reward of the item plus what the run had gained of it,
\* the outcome of the completing choice included.
C36_CompletionCommitsDeltas ==
    [][\A user_id \in Users, choice_id \in ChoiceIds :
          (/\ ChoiceLocated(user_id, choice_id)
           /\ LocatedChoice(user_id, choice_id).next_scene = "complete"
           /\ make_choice(user_id, choice_id)
           /\ result'.success)
              => LET run == ApplyOutcomes(active_quests[user_id],
                                          LocatedChoice(user_id, choice_id).outcomes)
                     rewards == quests[active_quests[user_id].quest_name].rewards
                 IN /\ user_id \notin DOMAIN active_quests'
                    /\ \A i \in AllItems :
                           available_quantity(user_inventory', user_id, i)
                               = available_quantity(user_inventory, user_id, i)
                                     + DictGet(rewards.items, i)
                                     + DictGet(run.inventory, i)]_vars

(***************************************************************************)
(* Lore browsing.                                                          *)
(***************************************************************************)
\* FangenLoreManager.lore_data: the entries of each category
lore_data == ("items" :> {Vial}) @@ ("quests" :> {QA, QB})

\* lore_manager.get_categories()
get_categories == DOMAIN lore_data

\* lore_manager.get_entries_by_category(category)
get_entries_by_category(category) == lore_data[category]

\* INSERT OR IGNORE INTO user_progress ... VALUES (?, ?, ?, TRUE, now)
InsertDiscovery(progress, user_id, category, entry_name, now) ==
    IF <<user_id, category, entry_name>> \in DOMAIN progress
    THEN progress
    ELSE Put(progress, <<user_id, category, entry_name>>,
             [discovered |-> TRUE, discovery_date |-> now])

\* LoreCommandHandlers.discover_command: a random entry of a random
\* category is shown and marked as discovered
discover_command(user_id) ==
    \E category \in get_categories :
        \E entry_name \in get_entries_by_category(category) :
            /\ user_progress' = InsertDiscovery(user_progress, user_id, category,
                                                entry_name, clock)
            /\ result' = Result("discover_command", TRUE,
                                Msg("discovered", entry_name, NoMissing))
            /\ UNCHANGED <<active_quests, user_inventory, user_quests, decision_logs,
                           user_relationships, clock, crafting, choosing>>

LoreQuests == {QA, QB}
LoreChoiceIds == {"3A", "2A", "1A"}
LoreItems == {Shard}

NextLore ==
    \/ \E user_id \in Users : discover_command(user_id)
    \/ \E user_id \in Users, quest_name \in LoreQuests : start_quest(user_id, quest_name)
    \/ \E user_id \in Users, choice_id \in LoreChoiceIds : make_choice(user_id, choice_id)
    \/ \E user_id \in Users : abandon_quest(user_id)
    \/ \E user_id \in Users, item_name \in LoreItems : craft_item(user_id, item_name)
    \/ \E user_id \in Users : get_available_quests(user_id)

SpecLore == Init /\ [][NextLore]_vars

\* C37: a quest enters the completed quests of a player, which can_craft,
\* get_available_recipes and the quest list read, only in the step in which
\* the player's run of that quest completes.
C37_CompletedOnlyByCompletion ==
    [][\A user_id \in Users, quest_name \in DOMAIN quests :
          (/\ quest_name \notin completed_quests(user_progress, user_id)
           /\ quest_name \in completed_quests(user_progress', user_id))
              => /\ user_id \in DOMAIN active_quests
                 /\ active_quests[user_id].quest_name = quest_name
                 /\ result'.op = "make_choice"
                 /\ result'.payload.kind = "completion"]_vars

\* user_id has no run and has abandoned or completed one before
BetweenRuns(user_id) ==
    /\ user_id \notin DOMAIN active_quests
    /\ \E k \in DOMAIN user_quests :
           k[1] = user_id /\ user_quests[k].status \in {"abandoned", "completed"}

====
